---- MODULE Spec2Model ----
(***************************************************************************)
(* niri-glue: the keyboard-layout monitor (src/src/layout.rs) and the      *)
(* command dispatcher (src/src/lib.rs).                                    *)
(*                                                                         *)
(* A string is a sequence of one-character strings, so that the regular    *)
(* expression, to_lowercase and format! are computed character by          *)
(* character.  An Option<T> is a sequence of length 0 (None) or 1 (Some).  *)
(***************************************************************************)
EXTENDS Integers, Sequences, FiniteSets, TLC

VARIABLES
    pc,           \* position of the process: start, connected, loop, exited, panicked
    command,      \* Args::command
    path,         \* Args::path, an Option
    ipc,          \* the socket operations performed so far, in order
    aliases,      \* LayoutRunner::aliases
    names,        \* LayoutRunner::layouts.names
    current_idx,  \* LayoutRunner::layouts.current_idx
    out,          \* the lines written to standard output, in order
    event,        \* the event last returned by the event stream, an Option
    raw,          \* the argument of the function applied on its own
    resolved,     \* the value that function returned, an Option
    alias_args,   \* the --alias values of the command line, as typed
    cli_aliases   \* Layout::aliases, the pairs parsed from them

vars == <<pc, command, path, ipc, aliases, names, current_idx, out, event, raw,
          resolved, alias_args, cli_aliases>>

----------------------------------------------------------------------------
(* Bounds *)

MaxLen == 5        \* longest raw layout name handed to alias_layout alone
MaxAliases == 2    \* most --alias arguments on the command line
MaxNames == 2      \* most layouts in one KeyboardLayoutsChanged event
MaxIdx == 2        \* largest index an event carries
MaxOut == 2        \* lines written before the monitor is no longer observed
MaxArgLen == 3     \* longest --alias value parsed

----------------------------------------------------------------------------
(* Strings *)

None == <<>>
Some(x) == <<x>>

Whitespace == {" ", "\t", "\n"}

UpperCase == <<"A", "B", "C", "D", "E", "F", "G", "H", "I", "J", "K", "L", "M",
               "N", "O", "P", "Q", "R", "S", "T", "U", "V", "W", "X", "Y", "Z">>

LowerCase == <<"a", "b", "c", "d", "e", "f", "g", "h", "i", "j", "k", "l", "m",
               "n", "o", "p", "q", "r", "s", "t", "u", "v", "w", "x", "y", "z">>

\* the lower-case letter of every upper-case letter
CaseMap ==
    [c \in {UpperCase[i] : i \in DOMAIN UpperCase} |->
        LowerCase[CHOOSE i \in DOMAIN UpperCase : UpperCase[i] = c]]

to_lowercase_char(c) == IF c \in DOMAIN CaseMap THEN CaseMap[c] ELSE c

to_lowercase(s) == [i \in 1..Len(s) |-> to_lowercase_char(s[i])]

\* every string over the alphabet cs of length at most n
Strings(cs, n) == UNION {[1..k -> cs] : k \in 0..n}

\* every sequence over the set S of length at most n
SeqsUpTo(S, n) == UNION {[1..k -> S] : k \in 0..n}

----------------------------------------------------------------------------
(* The regular expression ^(?<full>\S+)\s*(\((?<alias>\S+)\))?$            *)
(*                                                                         *)
(* A way to match is a pair <<i, j>>: full is name[1..i], the white space  *)
(* is name[i+1..j], and either the name ends at j (the optional group      *)
(* takes nothing) or name[j+1] is "(", the name ends with ")" and alias is *)
(* name[j+2..n-1].  \S+ is greedy and the search is leftmost-first, so the *)
(* match reported is the one with the longest full.                        *)

re_captures(name) ==
    LET n == Len(name)
        NonSpace(a, b) == \A p \in a..b : name[p] \notin Whitespace
        Space(a, b) == \A p \in a..b : name[p] \in Whitespace
        Group(j) == /\ j + 3 <= n
                    /\ name[j + 1] = "("
                    /\ name[n] = ")"
                    /\ NonSpace(j + 2, n - 1)
        Ways == {w \in (1..n) \X (1..n) :
                    /\ w[1] <= w[2]
                    /\ NonSpace(1, w[1])
                    /\ Space(w[1] + 1, w[2])
                    /\ (w[2] = n \/ Group(w[2]))}
    IN  IF Ways = {}
        THEN None
        ELSE LET w == CHOOSE x \in Ways : \A y \in Ways : y[1] <= x[1]
             IN  Some([full  |-> Some(SubSeq(name, 1, w[1])),
                       alias |-> IF w[2] = n THEN None
                                 ELSE Some(SubSeq(name, w[2] + 2, n - 1))])

----------------------------------------------------------------------------
(* LayoutRunner *)

\* the alias table with the keys as typed
new_aliases_verbatim(config) ==
    LET Keys == {config[i][1] : i \in DOMAIN config}
        Last(k) == CHOOSE i \in DOMAIN config :
                       /\ config[i][1] = k
                       /\ \A j \in DOMAIN config : config[j][1] = k => j <= i
    IN  [k \in Keys |-> config[Last(k)][2]]

\* the alias table LayoutRunner::new builds: keys lower-cased, and of two
\* pairs with the same lower-cased key the later one is kept
new_aliases(config) ==
    LET Keys == {to_lowercase(config[i][1]) : i \in DOMAIN config}
        Last(k) == CHOOSE i \in DOMAIN config :
                       /\ to_lowercase(config[i][1]) = k
                       /\ \A j \in DOMAIN config :
                              to_lowercase(config[j][1]) = k => j <= i
    IN  [k \in Keys |-> config[Last(k)][2]]

alias_for(name) ==
    IF name # None
    THEN IF to_lowercase(name[1]) \in DOMAIN aliases
         THEN Some(aliases[to_lowercase(name[1])])
         ELSE None
    ELSE None

\* alias_layout looking the full name up before the alias hint
alias_layout_full_first(name) ==
    LET caps == re_captures(name)
    IN  IF caps # None
        THEN LET alias == caps[1].alias
                 full == caps[1].full
             IN  IF alias_for(full) # None THEN alias_for(full)[1]
                 ELSE IF alias_for(alias) # None THEN alias_for(alias)[1]
                 ELSE IF alias # None THEN alias[1]
                 ELSE full[1]
        ELSE name

\* alias_layout preferring the alias hint itself to the table entry of the
\* full name
alias_layout_hint_first(name) ==
    LET caps == re_captures(name)
    IN  IF caps # None
        THEN LET alias == caps[1].alias
                 full == caps[1].full
             IN  IF alias_for(alias) # None THEN alias_for(alias)[1]
                 ELSE IF alias # None THEN alias[1]
                 ELSE IF alias_for(full) # None THEN alias_for(full)[1]
                 ELSE full[1]
        ELSE name

\* alias_layout returning the lower-cased key it looked up
alias_layout_lowered(name) ==
    LET caps == re_captures(name)
    IN  IF caps # None
        THEN LET alias == caps[1].alias
                 full == caps[1].full
             IN  IF alias_for(alias) # None THEN alias_for(alias)[1]
                 ELSE IF alias_for(full) # None THEN alias_for(full)[1]
                 ELSE IF alias # None THEN to_lowercase(alias[1])
                 ELSE to_lowercase(full[1])
        ELSE name

\* alias_layout returning the whole name where it has no alias hint and no
\* table entry
alias_layout_whole(name) ==
    LET caps == re_captures(name)
    IN  IF caps # None
        THEN LET alias == caps[1].alias
                 full == caps[1].full
             IN  IF alias_for(alias) # None THEN alias_for(alias)[1]
                 ELSE IF alias_for(full) # None THEN alias_for(full)[1]
                 ELSE IF alias # None THEN alias[1]
                 ELSE name
        ELSE name

\* alias_layout looking a name that does not match the pattern up as a whole
alias_layout_lookup_whole(name) ==
    LET caps == re_captures(name)
    IN  IF caps # None
        THEN LET alias == caps[1].alias
                 full == caps[1].full
             IN  IF alias_for(alias) # None THEN alias_for(alias)[1]
                 ELSE IF alias_for(full) # None THEN alias_for(full)[1]
                 ELSE IF alias # None THEN alias[1]
                 ELSE full[1]
        ELSE IF alias_for(Some(name)) # None THEN alias_for(Some(name))[1]
             ELSE name

alias_layout(name) ==
    LET caps == re_captures(name)
    IN  IF caps # None
        THEN LET alias == IF caps[1].alias = Some(<<>>) THEN None ELSE caps[1].alias
                 alias_alias == alias_for(alias)
             IN  IF alias_alias # None
                 THEN alias_alias[1]
                 ELSE LET full == IF caps[1].full = Some(<<>>) THEN None
                                  ELSE caps[1].full
                          full_alias == alias_for(full)
                      IN  IF full_alias # None
                          THEN full_alias[1]
                          ELSE IF alias # None
                               THEN alias[1]
                               ELSE IF full # None
                                    THEN full[1]
                                    ELSE name
        ELSE name

----------------------------------------------------------------------------
(* alias_layout on its own: every name over a small alphabet, every table  *)

Alphabet == {"a", "A", "b", " ", "(", ")"}

RawNames == Strings(Alphabet, MaxLen)

AliasKeys == {<<"A">>, <<"b">>, <<"a", " ", "b">>}
AliasValues == {<<"X">>, <<"Y">>}
AliasConfigs == SeqsUpTo(AliasKeys \X AliasValues, MaxAliases)

InitResolve ==
    /\ pc = "alias_layout"
    /\ command = "layout"
    /\ path = None
    /\ ipc = <<>>
    /\ aliases \in {new_aliases(c) : c \in AliasConfigs}
    /\ names = <<>>
    /\ current_idx = 0
    /\ out = <<>>
    /\ event = None
    /\ raw \in RawNames
    /\ resolved = None
    /\ alias_args = <<>>
    /\ cli_aliases = <<>>

Resolve ==
    /\ pc = "alias_layout"
    /\ pc' = "resolved"
    /\ resolved' = Some(alias_layout(raw))
    /\ UNCHANGED <<command, path, ipc, aliases, names, current_idx, out, event,
                   raw,
                   alias_args, cli_aliases>>

NextResolve == Resolve

SpecResolve == InitResolve /\ [][NextResolve]_vars

----------------------------------------------------------------------------
(* alias_for on its own: every list of --alias pairs over a few keys that   *)
(* differ in letter case only, every name of the same letters               *)

LookupKeys == Strings({"a", "A"}, 2) \ {<<>>}
LookupValues == {<<"X">>, <<"y">>}
LookupConfigs == SeqsUpTo(LookupKeys \X LookupValues, MaxAliases)
LookupNames == LookupKeys

InitLookup ==
    /\ pc = "alias_for"
    /\ command = "layout"
    /\ path = None
    /\ ipc = <<>>
    /\ cli_aliases \in LookupConfigs
    /\ aliases = new_aliases(cli_aliases)
    /\ names = <<>>
    /\ current_idx = 0
    /\ out = <<>>
    /\ event = None
    /\ raw \in LookupNames
    /\ resolved = None
    /\ alias_args = <<>>

Lookup ==
    /\ pc = "alias_for"
    /\ pc' = "looked_up"
    /\ resolved' = Some(alias_for(Some(raw)))
    /\ UNCHANGED <<command, path, ipc, aliases, names, current_idx, out, event,
                   raw, alias_args, cli_aliases>>

NextLookup == Lookup

SpecLookup == InitLookup /\ [][NextLookup]_vars

----------------------------------------------------------------------------
(* The process: Args::run, the three commands and the monitor's loop *)

Commands == {"test", "layout", "switch-layout"}

SocketPaths == {<<"/", "s">>}

\* the raw layout names and the --alias lists the compositor and the command
\* line supply while the whole process is observed
LayoutNames == {<<"a", " ", "(", "b", ")">>, <<"A", "\"">>}

LayoutConfigs == {<<>>,
                  <<<<<<"B">>, <<"X">>>>>>,
                  <<<<<<"a", "\"">>, <<"Y", "\"">>>>, <<<<"a">>, <<"X">>>>>>}

OtherEventKinds == {"WindowFocusChanged"}

Events ==
    [kind : {"KeyboardLayoutsChanged"},
     names : SeqsUpTo(LayoutNames, MaxNames), idx : 0..MaxIdx]
    \cup [kind : {"KeyboardLayoutSwitched"}, names : {<<>>}, idx : 0..MaxIdx]
    \cup [kind : OtherEventKinds, names : {<<>>}, idx : {0}]

\* format!("{{ \"text\": \"{layout}\", \"class\": \"layout\" }}")
LinePrefix == <<"{", " ", "\"", "t", "e", "x", "t", "\"", ":", " ", "\"">>
LineSuffix == <<"\"", ",", " ", "\"", "c", "l", "a", "s", "s", "\"", ":", " ",
                "\"", "l", "a", "y", "o", "u", "t", "\"", " ", "}">>

\* the characters of s with a backslash before every double quote
RECURSIVE escape_quotes(_)
escape_quotes(s) ==
    IF s = <<>> THEN <<>>
    ELSE (IF Head(s) = "\"" THEN <<"\\", "\"">> ELSE <<Head(s)>>)
         \o escape_quotes(Tail(s))

\* format! with the display name escaped
format_line_escaped(layout) == LinePrefix \o escape_quotes(layout) \o LineSuffix

format_line(layout) == LinePrefix \o layout \o LineSuffix

\* switched storing the index without the bounds check
switched_unchecked(layout_names, idx) ==
    IF idx < Len(layout_names)
    THEN /\ out' = Append(out, format_line(layout_names[idx + 1]))
         /\ current_idx' = idx
    ELSE /\ out' = out
         /\ current_idx' = idx

\* switched showing the last layout for an index past the end
switched_clamped(layout_names, idx) ==
    IF layout_names # <<>>
    THEN LET i == IF idx < Len(layout_names) THEN idx ELSE Len(layout_names) - 1
         IN  /\ out' = Append(out, format_line(layout_names[i + 1]))
             /\ current_idx' = i
    ELSE UNCHANGED <<out, current_idx>>

\* switched writing nothing for the index already stored
switched_dedup(layout_names, idx) ==
    IF idx < Len(layout_names) /\ idx # current_idx
    THEN /\ out' = Append(out, format_line(layout_names[idx + 1]))
         /\ current_idx' = idx
    ELSE UNCHANGED <<out, current_idx>>

\* switched writing the line without storing the index
switched_index_kept(layout_names, idx) ==
    IF idx < Len(layout_names)
    THEN /\ out' = Append(out, format_line(layout_names[idx + 1]))
         /\ current_idx' = current_idx
    ELSE UNCHANGED <<out, current_idx>>

\* LayoutRunner::switched, reading the names the runner holds when it is called
switched(layout_names, idx) ==
    IF idx < Len(layout_names)
    THEN /\ out' = Append(out, format_line(layout_names[idx + 1]))
         /\ current_idx' = idx
    ELSE UNCHANGED <<out, current_idx>>

\* changed switching against the names held before the event
changed_stale(layouts_names, layouts_current_idx) ==
    /\ names' = [i \in 1..Len(layouts_names) |-> alias_layout(layouts_names[i])]
    /\ switched(names, layouts_current_idx)

changed(layouts_names, layouts_current_idx) ==
    /\ names' = [i \in 1..Len(layouts_names) |-> alias_layout(layouts_names[i])]
    /\ switched(names', layouts_current_idx)

\* process_event showing the current layout again on every other event
process_event_refresh(ev) ==
    CASE ev.kind = "KeyboardLayoutsChanged" -> changed(ev.names, ev.idx)
      [] ev.kind = "KeyboardLayoutSwitched" ->
             /\ switched(names, ev.idx)
             /\ UNCHANGED names
      [] OTHER ->
             /\ switched(names, current_idx)
             /\ UNCHANGED names

process_event(ev) ==
    CASE ev.kind = "KeyboardLayoutsChanged" -> changed(ev.names, ev.idx)
      [] ev.kind = "KeyboardLayoutSwitched" ->
             /\ switched(names, ev.idx)
             /\ UNCHANGED names
      [] OTHER -> UNCHANGED <<names, current_idx, out>>

Init ==
    /\ pc = "start"
    /\ command \in Commands
    /\ path \in {None} \cup {Some(p) : p \in SocketPaths}
    /\ ipc = <<>>
    /\ aliases = <<>>
    /\ names = <<>>
    /\ current_idx = 0
    /\ out = <<>>
    /\ event = None
    /\ raw = <<>>
    /\ resolved = None
    /\ alias_args = <<>>
    /\ cli_aliases \in IF command = "layout" THEN LayoutConfigs ELSE {<<>>}

\* Socket::connect() whatever the path
connect_request_default == [op |-> "connect", arg |-> <<>>]

\* Socket::connect_to(path) or Socket::connect()
connect_request ==
    IF path # None THEN [op |-> "connect_to", arg |-> path[1]]
    ELSE [op |-> "connect", arg |-> <<>>]

ConnectOk ==
    /\ pc = "start"
    /\ ipc' = Append(ipc, connect_request)
    /\ pc' = "connected"
    /\ UNCHANGED <<command, path, aliases, names, current_idx, out, event, raw,
                   resolved,
                   alias_args, cli_aliases>>

\* unwrap() of a failed connection
ConnectFail ==
    /\ pc = "start"
    /\ ipc' = Append(ipc, connect_request)
    /\ pc' = "panicked"
    /\ UNCHANGED <<command, path, aliases, names, current_idx, out, event, raw,
                   resolved,
                   alias_args, cli_aliases>>

TestSocket_run ==
    /\ pc = "connected"
    /\ command = "test"
    /\ pc' = "exited"
    /\ UNCHANGED <<command, path, ipc, aliases, names, current_idx, out, event,
                   raw, resolved,
                   alias_args, cli_aliases>>

\* SwitchLayout::run with the result of the send unwrapped
SwitchLayout_run_unwrap ==
    /\ pc = "connected"
    /\ command = "switch-layout"
    /\ \E sent \in {"ok", "err"} :
           /\ ipc' = Append(ipc, [op |-> "send", arg |-> "SwitchLayoutNext",
                                  result |-> sent])
           /\ pc' = IF sent = "ok" THEN "exited" ELSE "panicked"
    /\ UNCHANGED <<command, path, aliases, names, current_idx, out, event, raw,
                   resolved, alias_args, cli_aliases>>

\* let _ = socket.send(...): the result of the send, a reply or an error, is
\* dropped
SwitchLayout_run ==
    /\ pc = "connected"
    /\ command = "switch-layout"
    /\ \E sent \in {"ok", "err"} :
           /\ ipc' = Append(ipc, [op |-> "send", arg |-> "SwitchLayoutNext",
                                  result |-> sent])
           /\ pc' = "exited"
    /\ UNCHANGED <<command, path, aliases, names, current_idx, out, event, raw,
                   resolved, alias_args, cli_aliases>>

\* LayoutRunner::new: the alias table and the empty layout snapshot
new(config) ==
    /\ aliases' = new_aliases(config)
    /\ names' = <<>>
    /\ current_idx' = 0

\* Layout::run: LayoutRunner::new, then the subscription of LayoutRunner::run
SubscribeOk ==
    /\ pc = "connected"
    /\ command = "layout"
    /\ new(cli_aliases)
    /\ ipc' = Append(ipc, [op |-> "send", arg |-> "EventStream"])
    /\ pc' = "loop"
    /\ UNCHANGED <<command, path, out, event, raw, resolved,
                   alias_args, cli_aliases>>

\* the same with unwrap() of a failed subscription
SubscribeFail ==
    /\ pc = "connected"
    /\ command = "layout"
    /\ new(cli_aliases)
    /\ ipc' = Append(ipc, [op |-> "send", arg |-> "EventStream"])
    /\ pc' = "panicked"
    /\ UNCHANGED <<command, path, out, event, raw, resolved,
                   alias_args, cli_aliases>>

\* one turn of the loop of LayoutRunner::run with a successful receive
RunEvent ==
    /\ pc = "loop"
    /\ Len(out) < MaxOut
    /\ \E ev \in Events :
           /\ event' = Some(ev)
           /\ process_event(ev)
    /\ UNCHANGED <<pc, command, path, ipc, aliases, raw, resolved,
                   alias_args, cli_aliases>>

\* the loop left as on a normal end of the stream
RunRecvFail_exit ==
    /\ pc = "loop"
    /\ pc' = "exited"
    /\ UNCHANGED <<command, path, ipc, aliases, names, current_idx, out, event,
                   raw, resolved, alias_args, cli_aliases>>

\* functor().unwrap() of a failed receive
RunRecvFail ==
    /\ pc = "loop"
    /\ pc' = "panicked"
    /\ UNCHANGED <<command, path, ipc, aliases, names, current_idx, out, event,
                   raw, resolved,
                   alias_args, cli_aliases>>

Next ==
    \/ ConnectOk
    \/ ConnectFail
    \/ TestSocket_run
    \/ SwitchLayout_run
    \/ SubscribeOk
    \/ SubscribeFail
    \/ RunEvent
    \/ RunRecvFail

Spec == Init /\ [][Next]_vars

----------------------------------------------------------------------------
(* The start of the layout command from its command line: the --alias      *)
(* values are parsed, then Args::run connects and the runner is built       *)

\* parse_key_val splitting at the last "="
parse_key_val_last(s) ==
    IF \E p \in DOMAIN s : s[p] = "="
    THEN LET p == CHOOSE q \in DOMAIN s :
                      s[q] = "=" /\ \A r \in DOMAIN s : s[r] = "=" => r <= q
         IN  [ok |-> TRUE, var |-> SubSeq(s, 1, p - 1),
              value |-> SubSeq(s, p + 1, Len(s))]
    ELSE [ok |-> FALSE, var |-> <<>>, value |-> <<>>]

\* parse_key_val: s.split_once('='), Ok((var, value)) or Err
parse_key_val(s) ==
    IF \E p \in DOMAIN s : s[p] = "="
    THEN LET p == CHOOSE q \in DOMAIN s :
                      s[q] = "=" /\ \A r \in DOMAIN s : s[r] = "=" => q <= r
         IN  [ok |-> TRUE, var |-> SubSeq(s, 1, p - 1),
              value |-> SubSeq(s, p + 1, Len(s))]
    ELSE [ok |-> FALSE, var |-> <<>>, value |-> <<>>]

ArgValues == Strings({"a", "="}, MaxArgLen)

InitArgs ==
    /\ pc = "parse"
    /\ command = "layout"
    /\ path \in {None} \cup {Some(p) : p \in SocketPaths}
    /\ ipc = <<>>
    /\ aliases = <<>>
    /\ names = <<>>
    /\ current_idx = 0
    /\ out = <<>>
    /\ event = None
    /\ raw = <<>>
    /\ resolved = None
    /\ alias_args \in SeqsUpTo(ArgValues, MaxAliases)
    /\ cli_aliases = <<>>

\* every --alias value goes through the value parser; Args exists after that
ParseOk ==
    /\ pc = "parse"
    /\ \A i \in DOMAIN alias_args : parse_key_val(alias_args[i]).ok
    /\ cli_aliases' = [i \in DOMAIN alias_args |->
                          <<parse_key_val(alias_args[i]).var,
                            parse_key_val(alias_args[i]).value>>]
    /\ pc' = "start"
    /\ UNCHANGED <<command, path, ipc, aliases, names, current_idx, out, event,
                   raw, resolved, alias_args>>

\* a value the value parser refuses ends the process with a usage error
ParseFail ==
    /\ pc = "parse"
    /\ \E i \in DOMAIN alias_args : ~parse_key_val(alias_args[i]).ok
    /\ pc' = "usage_error"
    /\ UNCHANGED <<command, path, ipc, aliases, names, current_idx, out, event,
                   raw, resolved, alias_args, cli_aliases>>

NextArgs ==
    \/ ParseOk
    \/ ParseFail
    \/ ConnectOk
    \/ ConnectFail
    \/ SubscribeOk
    \/ SubscribeFail

SpecArgs == InitArgs /\ [][NextArgs]_vars

----------------------------------------------------------------------------
(* Properties of the event handlers, checked under Spec *)

\* a step of the loop of LayoutRunner::run in which event e was handled
Handled(e) ==
    /\ pc = "loop"
    /\ event' = Some(e)
    /\ (event' # event \/ pc' = pc)

\* the line the monitor is to write for display name d
StatusLine(d) ==
    <<"{", " ", "\"", "t", "e", "x", "t", "\"", ":", " ", "\"">> \o d \o
    <<"\"", ",", " ", "\"", "c", "l", "a", "s", "s", "\"", ":", " ",
      "\"", "l", "a", "y", "o", "u", "t", "\"", " ", "}">>

\* C1: a KeyboardLayoutSwitched event whose idx is at least the length of the
\* stored names (the empty initial names included) writes no line, leaves the
\* stored names and the stored current index as they were, and the process
\* stays in its loop.
C1_SwitchedOutOfRange ==
    [][\A e \in Events :
          (/\ Handled(e)
           /\ e.kind = "KeyboardLayoutSwitched"
           /\ e.idx >= Len(names))
          => /\ out' = out
             /\ names' = names
             /\ current_idx' = current_idx
             /\ pc' = "loop"]_vars

\* C1 witness: with two layouts stored and one line written, a switch to
\* index 2 has been handled and the stored index is still another one.
C1_Witness ==
    /\ pc = "loop"
    /\ event # None
    /\ event[1].kind = "KeyboardLayoutSwitched"
    /\ Len(names) = 2
    /\ event[1].idx >= Len(names)
    /\ current_idx = 1
    /\ Len(out) = 1

\* C2: a KeyboardLayoutSwitched event whose idx is within the stored names
\* writes exactly one line, { "text": "<D>", "class": "layout" } with D the
\* stored display name at idx character for character, stores idx as the
\* current index and leaves the names alone, also when idx is the index
\* already stored.
C2_SwitchedInRange ==
    [][\A e \in Events :
          (/\ Handled(e)
           /\ e.kind = "KeyboardLayoutSwitched"
           /\ e.idx < Len(names))
          => /\ out' = Append(out, StatusLine(names[e.idx + 1]))
             /\ current_idx' = e.idx
             /\ names' = names]_vars

\* C2 witness: the only stored layout has a double quote in its display name,
\* and a switch to index 0 has written its line a second time.
C2_Witness ==
    /\ event # None
    /\ event[1].kind = "KeyboardLayoutSwitched"
    /\ event[1].idx = 0
    /\ names = <<<<"A", "\"">>>>
    /\ current_idx = 0
    /\ Len(out) = 2
    /\ out[1] = out[2]
    /\ out[2] = StatusLine(<<"A", "\"">>)

\* C3: a KeyboardLayoutsChanged event replaces the stored names by the
\* event's names, each passed through alias_layout, in order, and then acts
\* as a switch to the event's index against the new names.
C3_ChangedReplaces ==
    [][\A e \in Events :
          (Handled(e) /\ e.kind = "KeyboardLayoutsChanged")
          => /\ Len(names') = Len(e.names)
             /\ \A i \in 1..Len(e.names) : names'[i] = alias_layout(e.names[i])
             /\ IF e.idx < Len(names')
                THEN /\ out' = Append(out, StatusLine(names'[e.idx + 1]))
                     /\ current_idx' = e.idx
                ELSE /\ out' = out
                     /\ current_idx' = current_idx]_vars

\* C3 witness: after an earlier line, a change to two layouts with index 1 has
\* been handled; the first name was replaced by its alias and the line of the
\* second was written.
C3_Witness ==
    /\ event # None
    /\ event[1].kind = "KeyboardLayoutsChanged"
    /\ event[1].names = <<<<"a", " ", "(", "b", ")">>, <<"A", "\"">>>>
    /\ event[1].idx = 1
    /\ names = <<<<"X">>, <<"A", "\"">>>>
    /\ current_idx = 1
    /\ Len(out) = 2
    /\ out[2] = StatusLine(<<"A", "\"">>)

\* the length of the names an event's index is checked against
CheckedLen(e) ==
    IF e.kind = "KeyboardLayoutsChanged" THEN Len(e.names) ELSE Len(names)

CarriesIndex(e) ==
    e.kind \in {"KeyboardLayoutsChanged", "KeyboardLayoutSwitched"}

\* C4 as stated: an event whose index is out of range for the names it is
\* checked against leaves the stored names and the stored current index
\* unchanged, writes no line and does not end the process.
C4_SnapshotUnchanged ==
    [][\A e \in Events :
          (Handled(e) /\ CarriesIndex(e) /\ e.idx >= CheckedLen(e))
          => /\ names' = names
             /\ current_idx' = current_idx
             /\ out' = out
             /\ pc' = "loop"]_vars

\* C4 amended: an event whose index is out of range for the names it is
\* checked against leaves the stored current index unchanged, writes no line
\* and does not end the process; a KeyboardLayoutSwitched event leaves the
\* stored names unchanged too, a KeyboardLayoutsChanged event still replaces
\* them by the resolved names of the event.
C4_IndexUnchanged ==
    [][\A e \in Events :
          (Handled(e) /\ CarriesIndex(e) /\ e.idx >= CheckedLen(e))
          => /\ current_idx' = current_idx
             /\ out' = out
             /\ pc' = "loop"
             /\ e.kind = "KeyboardLayoutSwitched" => names' = names
             /\ e.kind = "KeyboardLayoutsChanged" =>
                    names' = [i \in 1..Len(e.names) |-> alias_layout(e.names[i])]
      ]_vars

\* C4 witness: a change to one layout with index 2 has been handled after
\* index 1 of two layouts was shown: the names are the new ones and the
\* stored index is still 1.
C4_Witness ==
    /\ pc = "loop"
    /\ event # None
    /\ event[1].kind = "KeyboardLayoutsChanged"
    /\ Len(event[1].names) = 1
    /\ event[1].idx = 2
    /\ Len(names) = 1
    /\ current_idx = 1
    /\ Len(out) = 1

\* C5: an event of any other kind writes no line, leaves the stored names,
\* the stored current index and the alias table unchanged, and the process
\* stays in its loop, ready for the next event.
C5_OtherEventsIgnored ==
    [][\A e \in Events :
          (Handled(e) /\ ~CarriesIndex(e))
          => /\ out' = out
             /\ names' = names
             /\ current_idx' = current_idx
             /\ aliases' = aliases
             /\ pc' = "loop"]_vars

\* C5 witness: another event has been handled while a layout was stored and
\* its line had been written.
C5_Witness ==
    /\ pc = "loop"
    /\ event # None
    /\ event[1].kind \in OtherEventKinds
    /\ names # <<>>
    /\ current_idx < Len(names)
    /\ Len(out) = 1

----------------------------------------------------------------------------
(* Properties of alias_layout, checked under SpecResolve *)

IsBlank(s) == \A p \in DOMAIN s : s[p] \in Whitespace

IsWord(s) == s # <<>> /\ \A p \in DOMAIN s : s[p] \notin Whitespace

HasEntry(s) == to_lowercase(s) \in DOMAIN aliases

Entry(s) == aliases[to_lowercase(s)]

\* the ways to read s as FULL (ALIAS): a word, white space, and a word
\* between an opening and the closing parenthesis; each way is <<FULL, ALIAS>>
HintForms(s) ==
    LET n == Len(s)
    IN  {<<SubSeq(s, 1, i), SubSeq(s, j + 2, n - 1)>> :
            <<i, j>> \in {w \in (1..n) \X (1..n) :
                            /\ w[1] < w[2]
                            /\ w[2] + 3 <= n
                            /\ IsWord(SubSeq(s, 1, w[1]))
                            /\ IsBlank(SubSeq(s, w[1] + 1, w[2]))
                            /\ s[w[2] + 1] = "("
                            /\ IsWord(SubSeq(s, w[2] + 2, n - 1))
                            /\ s[n] = ")"}}

\* C6: for a raw name FULL (ALIAS) whose ALIAS has an entry in the alias
\* table, compared without regard to case, alias_layout returns the value
\* of that entry, whatever the table holds for FULL.
C6_AliasHintFirst ==
    resolved # None =>
        \A fa \in HintForms(raw) :
            HasEntry(fa[2]) => resolved[1] = Entry(fa[2])

\* C6 witness: "b (A)" was resolved with a table that maps a to X and b to Y,
\* and the result is X.
C6_Witness ==
    /\ raw = <<"b", " ", "(", "A", ")">>
    /\ DOMAIN aliases = {<<"a">>, <<"b">>}
    /\ aliases[<<"a">>] = <<"X">>
    /\ aliases[<<"b">>] = <<"Y">>
    /\ resolved = Some(<<"X">>)

\* C7: for a raw name that matches the pattern and whose alias hint is absent
\* or has no entry, if the full name has an entry, compared without regard to
\* case, alias_layout returns the value of that entry: so it does for a name
\* without a parenthetical part, and for FULL (ALIAS) it returns the entry of
\* FULL rather than ALIAS itself.
C7_FullNameEntry ==
    resolved # None =>
        /\ LET caps == re_captures(raw)
           IN  (/\ caps # None
                /\ (caps[1].alias = None \/ ~HasEntry(caps[1].alias[1]))
                /\ HasEntry(caps[1].full[1]))
               => resolved[1] = Entry(caps[1].full[1])
        /\ (IsWord(raw) /\ (\A p \in DOMAIN raw : raw[p] \notin {"(", ")"})
            /\ HasEntry(raw))
           => resolved[1] = Entry(raw)
        /\ \A fa \in HintForms(raw) :
               (~HasEntry(fa[2]) /\ HasEntry(fa[1])) => resolved[1] = Entry(fa[1])

\* C7 witness: "A (b)" was resolved with a table whose only entry maps a to
\* Y, and the result is Y, not b.
C7_Witness ==
    /\ raw = <<"A", " ", "(", "b", ")">>
    /\ DOMAIN aliases = {<<"a">>}
    /\ aliases[<<"a">>] = <<"Y">>
    /\ resolved = Some(<<"Y">>)

\* C8: for a raw name FULL (ALIAS) where neither ALIAS nor FULL has an entry
\* in the alias table, alias_layout returns ALIAS as written, in its own
\* letter case.
C8_AliasHintVerbatim ==
    resolved # None =>
        \A fa \in HintForms(raw) :
            (~HasEntry(fa[2]) /\ ~HasEntry(fa[1])) => resolved[1] = fa[2]

\* C8 witness: "a (A)" was resolved with a table that has an entry for b only,
\* and the result is A in upper case.
C8_Witness ==
    /\ raw = <<"a", " ", "(", "A", ")">>
    /\ DOMAIN aliases = {<<"b">>}
    /\ resolved = Some(<<"A">>)

NoParenthesis(s) == \A p \in DOMAIN s : s[p] \notin {"(", ")"}

\* the alias table has no entry for s or for a part of s that starts it
NoEntryFor(s) == \A i \in 1..Len(s) : ~HasEntry(SubSeq(s, 1, i))

\* the word before the white space that ends s, if s is such a word followed
\* by white space, an Option
TrimmedWord(s) ==
    IF \E i \in 1..(Len(s) - 1) :
           IsWord(SubSeq(s, 1, i)) /\ IsBlank(SubSeq(s, i + 1, Len(s)))
    THEN Some(SubSeq(s, 1, CHOOSE i \in 1..(Len(s) - 1) :
                  IsWord(SubSeq(s, 1, i)) /\ IsBlank(SubSeq(s, i + 1, Len(s)))))
    ELSE None

\* C9 as stated: for a raw name with no parenthetical part for which the
\* alias table has no entry, alias_layout returns the raw name character for
\* character, white space at its start, inside it or at its end included.
C9_Unchanged ==
    (resolved # None /\ NoParenthesis(raw) /\ NoEntryFor(raw))
    => resolved[1] = raw

\* C9 amended: for a raw name with no parenthetical part for which the alias
\* table has no entry, alias_layout returns the raw name character for
\* character, except that a name made of one word followed by white space is
\* returned without that white space.
C9_UnchangedButTrimmed ==
    (resolved # None /\ NoParenthesis(raw) /\ NoEntryFor(raw))
    => resolved[1] = IF TrimmedWord(raw) # None THEN TrimmedWord(raw)[1]
                     ELSE raw

\* C9 witness: "Ab " was resolved with a table that has an entry for b only,
\* and the result is "Ab".
C9_Witness ==
    /\ raw = <<"A", "b", " ">>
    /\ DOMAIN aliases = {<<"b">>}
    /\ resolved = Some(<<"A", "b">>)

\* the words FULL for which s is FULL, white space or none, and ()
EmptyHintForms(s) ==
    LET n == Len(s)
    IN  {SubSeq(s, 1, i) : i \in {k \in 1..(n - 2) :
            /\ IsWord(SubSeq(s, 1, k))
            /\ NoParenthesis(SubSeq(s, 1, k))
            /\ IsBlank(SubSeq(s, k + 1, n - 2))
            /\ s[n - 1] = "("
            /\ s[n] = ")"}}

\* C10: a raw name FULL () is resolved as FULL alone: to the value of the
\* table entry of FULL, compared without regard to case, if there is one, and
\* to FULL as written otherwise.
C10_EmptyHintAbsent ==
    resolved # None =>
        \A full \in EmptyHintForms(raw) :
            resolved[1] = IF HasEntry(full) THEN Entry(full) ELSE full

\* the ways to read s as FULL(ALIAS) with nothing between FULL and the
\* parenthesis: each way is <<FULL, ALIAS>>, two words without parentheses
TightHintForms(s) ==
    LET n == Len(s)
    IN  {<<SubSeq(s, 1, i), SubSeq(s, i + 2, n - 1)>> :
            i \in {k \in 1..(n - 3) :
                     /\ IsWord(SubSeq(s, 1, k))
                     /\ NoParenthesis(SubSeq(s, 1, k))
                     /\ s[k + 1] = "("
                     /\ IsWord(SubSeq(s, k + 2, n - 1))
                     /\ NoParenthesis(SubSeq(s, k + 2, n - 1))
                     /\ s[n] = ")"}}

\* C11: white space before the parenthesis is optional: FULL(ALIAS) is
\* resolved to what FULL (ALIAS) and FULL  (ALIAS) are resolved to, under
\* every alias table.
C11_OptionalWhitespace ==
    resolved # None =>
        \A fa \in TightHintForms(raw) :
            /\ resolved[1] = alias_layout(fa[1] \o <<" ", "(">> \o fa[2] \o <<")">>)
            /\ resolved[1] =
                   alias_layout(fa[1] \o <<" ", " ", "(">> \o fa[2] \o <<")">>)

\* s is not a word, then white space or none, then nothing or a word between
\* an opening and the closing parenthesis
OffPattern(s) ==
    LET n == Len(s)
    IN  ~\E i \in 1..n : \E j \in i..n :
            /\ IsWord(SubSeq(s, 1, i))
            /\ IsBlank(SubSeq(s, i + 1, j))
            /\ \/ j = n
               \/ /\ j + 3 <= n
                  /\ s[j + 1] = "("
                  /\ IsWord(SubSeq(s, j + 2, n - 1))
                  /\ s[n] = ")"

\* C13: a raw name that does not match the pattern is returned unchanged,
\* without any lookup in the alias table, also when the table has an entry
\* for the whole raw name: so it is for a name that starts with white space
\* and for a name with white space between two words.
C13_UnmatchedUnchanged ==
    resolved # None =>
        /\ OffPattern(raw) => resolved[1] = raw
        /\ (raw # <<>> /\ raw[1] \in Whitespace) => resolved[1] = raw
        /\ (\E i \in 2..(Len(raw) - 1) :
                /\ IsWord(SubSeq(raw, 1, i - 1))
                /\ raw[i] \in Whitespace
                /\ raw[i + 1] \notin Whitespace \cup {"("})
           => resolved[1] = raw

\* C13 witness: "A b" was resolved with a table that maps "a b" to X, and the
\* result is "A b".
C13_Witness ==
    /\ raw = <<"A", " ", "b">>
    /\ DOMAIN aliases = {<<"a", " ", "b">>}
    /\ aliases[<<"a", " ", "b">>] = <<"X">>
    /\ resolved = Some(<<"A", " ", "b">>)

----------------------------------------------------------------------------
(* Properties of the alias table and alias_for, checked under SpecLookup *)

\* a and b are the same but for the case of their letters
SameButCase(a, b) ==
    /\ Len(a) = Len(b)
    /\ \A p \in 1..Len(a) : to_lowercase_char(a[p]) = to_lowercase_char(b[p])

\* C12 as stated: for every pair (K, V) of the command line and every name
\* that is K but for letter case, alias_for returns V as typed.
C12_EveryPair ==
    resolved # None =>
        \A i \in DOMAIN cli_aliases :
            SameButCase(raw, cli_aliases[i][1])
            => resolved[1] = Some(cli_aliases[i][2])

\* C12 amended: for every pair (K, V) of the command line that no later pair
\* with the same key but for letter case follows, and every name that is K
\* but for letter case, alias_for returns V as typed; the keys of the table
\* are lower-cased.
C12_LastPair ==
    /\ \A k \in DOMAIN aliases : k = to_lowercase(k)
    /\ resolved # None =>
           \A i \in DOMAIN cli_aliases :
               (/\ SameButCase(raw, cli_aliases[i][1])
                /\ \A j \in DOMAIN cli_aliases :
                       SameButCase(cli_aliases[j][1], cli_aliases[i][1]) => j <= i)
               => resolved[1] = Some(cli_aliases[i][2])

\* C12 witness: with the only pair AA=X, the name aA was looked up and X was
\* found.
C12_Witness ==
    /\ cli_aliases = <<<<<<"A", "A">>, <<"X">>>>>>
    /\ raw = <<"a", "A">>
    /\ resolved = Some(Some(<<"X">>))

----------------------------------------------------------------------------
(* Properties of the process, checked under Spec *)

\* C14: for the layout command a failed subscription or a failed receive
\* ends the process with a failure, and nothing else ends the loop: from the
\* loop the process goes to the loop or to the failure only, a step that
\* handles an event stays in the loop, the failing step handles no event,
\* writes no line and touches the socket no more, nothing follows the
\* failure, and the layout command never ends with success.
C14_ReceiveFailureFatal ==
    [][/\ pc # "panicked"
       /\ pc = "loop" => /\ pc' \in {"loop", "panicked"}
                         /\ ipc' = ipc
                         /\ event' # event => pc' = "loop"
                         /\ pc' = "panicked" =>
                                /\ out' = out
                                /\ event' = event
                                /\ names' = names
                                /\ current_idx' = current_idx
       /\ (pc = "connected" /\ command = "layout") =>
              /\ pc' \in {"loop", "panicked"}
              /\ out' = out
       /\ command = "layout" => pc' # "exited"]_vars

\* C14 witness: the layout command has failed in its loop, after one event
\* was handled and one line written.
C14_Witness ==
    /\ command = "layout"
    /\ pc = "panicked"
    /\ Len(ipc) = 2
    /\ event # None
    /\ Len(out) = 1

\* the connection the command line asks for
WantedConnection ==
    IF path = None THEN [op |-> "connect", arg |-> <<>>]
    ELSE [op |-> "connect_to", arg |-> path[1]]

\* C15: every command connects first and once, to the path given or else to
\* the default socket; if that fails the process fails with no request sent
\* and no line written; if it succeeds the one command chosen runs, and test
\* ends with success and sends no request.
C15_ConnectFirst ==
    /\ [](/\ pc = "start" => (ipc = <<>> /\ out = <<>>)
          /\ pc # "start" =>
                 /\ Len(ipc) >= 1
                 /\ ipc[1] = WantedConnection
                 /\ \A i \in 2..Len(ipc) :
                        /\ ipc[i].op = "send"
                        /\ ipc[i].arg = IF command = "layout" THEN "EventStream"
                                        ELSE "SwitchLayoutNext"
          /\ Len(ipc) <= 2
          /\ command = "test" => Len(ipc) <= 1
          /\ command # "layout" => (out = <<>> /\ event = None))
    /\ [][/\ pc = "start" =>
                 /\ pc' \in {"connected", "panicked"}
                 /\ Len(ipc') = 1
                 /\ out' = out
          /\ (pc = "start" /\ pc' = "panicked") => UNCHANGED <<aliases, names, event>>
          /\ (pc = "connected" /\ command = "test") =>
                 (pc' = "exited" /\ ipc' = ipc)
          /\ (pc = "connected" /\ command = "layout") =>
                 ipc' = Append(ipc, [op |-> "send", arg |-> "EventStream"])
          /\ (pc = "connected" /\ command = "switch-layout") => Len(ipc') = 2
          /\ pc = "exited" => FALSE]_vars

\* C15 witness: test has ended with success after connecting to the path
\* given, and that connection is all it did.
C15_Witness ==
    /\ command = "test"
    /\ pc = "exited"
    /\ path # None
    /\ ipc = <<[op |-> "connect_to", arg |-> path[1]]>>
    /\ out = <<>>

\* C16: once connected, switch-layout sends the one request, to switch to
\* the next layout, and ends with success whether the send succeeded or not;
\* it subscribes to no events and writes no line.
C16_SwitchLayoutFireAndForget ==
    command = "switch-layout" =>
        /\ out = <<>>
        /\ event = None
        /\ Len(ipc) <= 2
        /\ \A i \in 2..Len(ipc) :
               /\ ipc[i].op = "send"
               /\ ipc[i].arg = "SwitchLayoutNext"
        /\ Len(ipc) = 2 <=> pc = "exited"
        /\ pc = "panicked" => Len(ipc) = 1
        /\ pc \in {"start", "connected", "exited", "panicked"}

\* C16 witness: switch-layout has ended with success although its send
\* failed.
C16_Witness ==
    /\ command = "switch-layout"
    /\ pc = "exited"
    /\ Len(ipc) = 2
    /\ ipc[2].arg = "SwitchLayoutNext"
    /\ ipc[2].result = "err"

----------------------------------------------------------------------------
(* Properties of the command line, checked under SpecArgs *)

HasSeparator(s) == \E p \in DOMAIN s : s[p] = "="

\* C17: an --alias value is accepted exactly if it has an "=": with a value
\* without one the process ends in argument parsing, it connects to nothing
\* and builds no alias table; an accepted value is split at its first "=",
\* what precedes it being the key and all that follows it, further "="
\* included, the replacement, which the table holds as typed.
C17_AliasValueParsed ==
    /\ (\E i \in DOMAIN alias_args : ~HasSeparator(alias_args[i])) =>
           /\ pc \in {"parse", "usage_error"}
           /\ ipc = <<>>
           /\ cli_aliases = <<>>
           /\ aliases = <<>>
    /\ (\A i \in DOMAIN alias_args : HasSeparator(alias_args[i])) =>
           /\ pc # "usage_error"
           /\ pc # "parse" =>
                  /\ Len(cli_aliases) = Len(alias_args)
                  /\ \A i \in DOMAIN alias_args :
                         /\ ~HasSeparator(cli_aliases[i][1])
                         /\ alias_args[i] =
                                cli_aliases[i][1] \o <<"=">> \o cli_aliases[i][2]
           /\ pc = "loop" =>
                  /\ \A k \in DOMAIN aliases :
                         \E i \in DOMAIN cli_aliases : aliases[k] = cli_aliases[i][2]
                  /\ \A i \in DOMAIN cli_aliases :
                         to_lowercase(cli_aliases[i][1]) \in DOMAIN aliases

\* C17 witness: the layout command runs its loop after --alias a== was
\* typed, and its table maps a to "=".
C17_Witness ==
    /\ alias_args = <<<<"a", "=", "=">>>>
    /\ pc = "loop"
    /\ DOMAIN aliases = {<<"a">>}
    /\ aliases[<<"a">>] = <<"=">>

----------------------------------------------------------------------------
(* Properties of the lines and the snapshot over time, checked under Spec *)

\* C18: the lines written match, one for one and in order, the events that
\* switch with an index in range: every step leaves the lines alone or adds
\* one at their end; a line is added only by a step of the loop that handles
\* such an event, and it is the line of the name then stored at its index;
\* every step that handles such an event adds a line; the names change only
\* with a KeyboardLayoutsChanged event, so while none with names has arrived
\* no line is written.
C18_OneLinePerSwitch ==
    [][/\ \/ out' = out
          \/ /\ Len(out') = Len(out) + 1
             /\ SubSeq(out', 1, Len(out)) = out
       /\ out' # out =>
              /\ pc = "loop"
              /\ pc' = "loop"
              /\ event' # None
              /\ CarriesIndex(event'[1])
              /\ event'[1].idx < CheckedLen(event'[1])
              /\ out'[Len(out')] = StatusLine(names'[event'[1].idx + 1])
       /\ \A e \in Events :
              (Handled(e) /\ CarriesIndex(e) /\ e.idx < CheckedLen(e))
              => out' # out
       /\ names' # names =>
              /\ event' # None
              /\ event'[1].kind = "KeyboardLayoutsChanged"
              /\ Len(names') = Len(event'[1].names)
       /\ (out' # out /\ names = <<>>) =>
              /\ event'[1].kind = "KeyboardLayoutsChanged"
              /\ event'[1].names # <<>>]_vars

\* C18 witness: two different lines have been written, the second by a
\* switch, with two layouts stored.
C18_Witness ==
    /\ Len(out) = 2
    /\ out[1] # out[2]
    /\ event # None
    /\ event[1].kind = "KeyboardLayoutSwitched"
    /\ Len(names) = 2
    /\ out[2] = StatusLine(names[event[1].idx + 1])

\* a KeyboardLayoutsChanged event whose index is outside its own names
StaleChange(e) ==
    e.kind = "KeyboardLayoutsChanged" /\ e.idx >= Len(e.names)

\* C19 as stated: whenever names are stored, the stored current index is a
\* position of them.
C19_IndexInRange == names # <<>> => current_idx < Len(names)

\* C19 amended: the stored current index is a position of the stored names,
\* whenever there are any, at the start and after every step taken from a
\* state where it is so, except the step that handles a
\* KeyboardLayoutsChanged event whose index is outside the event's names.
C19_IndexInRangeKept ==
    /\ C19_IndexInRange
    /\ [][(/\ C19_IndexInRange
           /\ ~\E e \in Events : Handled(e) /\ StaleChange(e))
          => (names' # <<>> => current_idx' < Len(names'))]_vars

\* C19 witness: a switch to an index past the end was handled while index 1
\* of two layouts was stored, and it still is.
C19_Witness ==
    /\ event # None
    /\ event[1].kind = "KeyboardLayoutSwitched"
    /\ event[1].idx = 2
    /\ Len(names) = 2
    /\ current_idx = 1
    /\ Len(out) = 1

\* C20 as stated: once a line is written, the last line is the line of the
\* stored name at the stored current index.
C20_DisplayCurrent ==
    out # <<>> =>
        /\ current_idx < Len(names)
        /\ out[Len(out)] = StatusLine(names[current_idx + 1])

\* C20 amended: once a line is written, the last line is the line of the
\* stored name at the stored current index after every step that handles an
\* event with an index in range, and after every other step taken from a
\* state where it is so, except the step that handles a
\* KeyboardLayoutsChanged event whose index is outside the event's names.
C20_DisplayCurrentKept ==
    [][/\ (\E e \in Events :
              Handled(e) /\ CarriesIndex(e) /\ e.idx < CheckedLen(e))
          => /\ out' # <<>>
             /\ current_idx' < Len(names')
             /\ out'[Len(out')] = StatusLine(names'[current_idx' + 1])
       /\ (/\ C20_DisplayCurrent
           /\ ~\E e \in Events : Handled(e) /\ StaleChange(e))
          => (out' # <<>> =>
                 /\ current_idx' < Len(names')
                 /\ out'[Len(out')] = StatusLine(names'[current_idx' + 1]))]_vars

\* C20 witness: after the line of index 0, a change to two layouts with index
\* 1 has been handled, and the last line is the line of the second.
C20_Witness ==
    /\ event # None
    /\ event[1].kind = "KeyboardLayoutsChanged"
    /\ event[1].idx = 1
    /\ Len(names) = 2
    /\ current_idx = 1
    /\ Len(out) = 2
    /\ out[2] = StatusLine(names[2])
    /\ out[1] # out[2]

====
